---- MODULE Spec2Model ----
(***************************************************************************)
(* Model of the assetstore server (src/app.js): the upload handler         *)
(* putAndPostHandler, the retrieval handler GET /:session/:filename, the   *)
(* handlers GET / and GET /:session, the nedb datastore they share and     *)
(* the files they write.                                                   *)
(*                                                                         *)
(* One action is one turn of the Node event loop: an I/O completion        *)
(* together with every promise reaction (microtask) that it triggers.      *)
(* Datastore operations go through nedb's executor, a FIFO queue that      *)
(* applies one operation at a time.                                        *)
(*                                                                         *)
(* Abstractions: a filename is a sequence of tokens in which "." is a      *)
(* token of its own; a payload is a sequence of bytes; the MD5 digest is   *)
(* a collision-free tag of the content; the timestamp Date.now() is        *)
(* identified with the request that took it; fs.writeFile and the read     *)
(* of the hashing stream each act on the file in one step.                 *)
(***************************************************************************)
EXTENDS Integers, Sequences, FiniteSets, TLC

\* ---------------------------------------------------------------- bounds
MaxReq == 3

MaxFaults == 1

MaxInFlight == 2

Reqs == 1..MaxReq

\* ---------------------------------------------------------------- inputs
Sessions == {"s1", "s2"}

FooWav == <<"foo", ".", "wav">>

FooTxt == <<"foo", ".", "txt">>

BarWav == <<"bar", ".", "wav">>

Filenames == {FooWav, FooTxt, BarWav}

\* The upload requests the clients send: same path with equal and with
\* different payload lengths, same stem with another extension, another key,
\* another session; and one request without a body, which has no third part.
UploadInputs ==
  { <<"s1", FooWav, <<1>>>>, <<"s1", FooWav, <<2>>>>, <<"s1", FooWav, <<1, 2>>>>,
    <<"s1", FooTxt, <<2>>>>, <<"s1", BarWav, <<1>>>>, <<"s2", FooWav, <<1>>>>,
    <<"s1", FooWav>> }

\* The retrieval the clients send: it meets an unknown session, a session
\* without the key, and a stored asset, depending on what was uploaded.
GetInputs == { <<"s1", FooWav>> }

\* The session the clients ask the document of: unknown at first, known once
\* something was uploaded to it.
GetSessionInputs == { "s2" }

\* JavaScript's undefined, for a path, a digest or a body that was never set
Undefined == <<>>

\* ------------------------------------------------------- pure functions
fileBaseDir == "files"

\* path.join(fileBaseDir, session)
dirPath(session) == <<fileBaseDir, session>>

\* path.join(dirPath, filename)
filePath(session, filename) == <<fileBaseDir, session, filename>>

RECURSIVE FirstDot(_, _)
\* index of the first "." of the filename at or after i, Len+1 when none
FirstDot(filename, i) ==
  IF i > Len(filename) THEN i
  ELSE IF filename[i] = "." THEN i
  ELSE FirstDot(filename, i + 1)

RECURSIVE LastDot(_, _)
\* index of the last "." of the filename at or before i, 0 when none
LastDot(filename, i) ==
  IF i < 1 THEN 0
  ELSE IF filename[i] = "." THEN i
  ELSE LastDot(filename, i - 1)

fileKeyWhole(filename) == filename

\* req.params.filename.split('.')[0]
fileKey(filename) == SubSeq(filename, 1, FirstDot(filename, 1) - 1)

\* the types table of the mime package, for the extensions in use
MimeTypes(ext) ==
  IF ext = <<"wav">> THEN "audio/x-wav"
  ELSE IF ext = <<"txt">> THEN "text/plain"
  ELSE "application/octet-stream"

\* mime.lookup(filePath): the extension is what follows the last "." or "/"
mimeLookup(path) ==
  LET name == path[3]
  IN  MimeTypes(SubSeq(name, LastDot(name, Len(name)) + 1, Len(name)))

\* crypto.createHash('md5') over the bytes read, as hex
md5(bytes) == <<"md5", bytes>>

\* the value a swallowed rejection hands to the next stage
ErrorValue == <<"Error">>

\* ------------------------------------------------------------------ state
VARIABLES
  store,   \* the nedb datastore: the sequence of its documents
  dirs,    \* the sessions whose directory exists under fileBaseDir
  files,   \* the regular files on disk: path -> bytes
  dbq,     \* nedb's executor queue: the operations not yet applied
  req,     \* the upload requests: position in putAndPostHandler and its locals
  get,     \* the last GET request: /:session/:filename, /:session or /
  faults   \* the I/O faults injected so far

vars == <<store, dirs, files, dbq, req, get, faults>>

NoResponse == [status |-> 0, path |-> Undefined]

IdleReq ==
  [ pc |-> "idle", session |-> "", filename |-> <<>>, data |-> <<>>,
    hasData |-> FALSE, branch |-> "none", hadKey |-> FALSE, filehash |-> Undefined,
    resp |-> NoResponse,
    \* history of the request, read by the properties only
    wrote |-> "no", failed |-> FALSE, sizeOk |-> "unchecked",
    commit |-> "no", solo |-> FALSE, dirErr |-> "no" ]

IdleGet ==
  [ pc |-> "idle", kind |-> "none", session |-> "", filename |-> <<>>,
    path |-> Undefined, status |-> 0, ctype |-> "", streamed |-> FALSE,
    body |-> <<>>, json |-> <<>>, threw |-> FALSE,
    \* history, read by the properties only: no upload was unfinished when
    \* the retrieval was sent
    quiet |-> FALSE ]

Init ==
  /\ store = <<>>
  /\ dirs = {}
  /\ files = <<>>
  /\ dbq = <<>>
  /\ req = [r \in Reqs |-> IdleReq]
  /\ get = IdleGet
  /\ faults = 0

\* ------------------------------------------------------------ filesystem
Put(fl, path, bytes) ==
  [p \in DOMAIN fl \cup {path} |-> IF p = path THEN bytes ELSE fl[p]]

\* fs.writeFile(filePath, data): what it may leave on disk.  Without the
\* session directory it fails with ENOENT.  With it, it succeeds, or an
\* injected fault (EACCES, ENOSPC, ...) fails it leaving the file as it was or
\* created/truncated to nothing.
writeFileOutcomes(session, path, bytes) ==
  IF session \notin dirs THEN {<<"ENOENT", files>>}
  ELSE {<<"ok", Put(files, path, bytes)>>}
       \cup (IF faults < MaxFaults
               THEN {<<"fault", files>>, <<"fault", Put(files, path, <<>>)>>}
               ELSE {})

\* fs.stat(dirPath): ENOENT without the directory; an injected fault is any
\* other error.
statOutcomes(session) ==
  {IF session \in dirs THEN "ok" ELSE "ENOENT"}
  \cup (IF faults < MaxFaults THEN {"fault"} ELSE {})

\* fs.mkdir(dirPath): EEXIST when the directory is there; otherwise it
\* creates it, or an injected fault fails it.
mkdirOutcomes(session) ==
  IF session \in dirs THEN {"EEXIST"}
  ELSE {"ok"} \cup (IF faults < MaxFaults THEN {"fault"} ELSE {})

\* ------------------------------------------------------------- datastore
Matching(st, session) == SelectSeq(st, LAMBDA d : d.sessionId = session)

InsertAt(st, doc, i) == SubSeq(st, 1, i - 1) \o <<doc>> \o SubSeq(st, i, Len(st))

RECURSIVE FirstMatch(_, _, _)
\* index of the first document of the session at or after i, 0 when none
FirstMatch(st, session, i) ==
  IF i > Len(st) THEN 0
  ELSE IF st[i].sessionId = session THEN i
  ELSE FirstMatch(st, session, i + 1)

\* the fields an upload commits for its asset: lines 119-125 and 194-201
assetRecord(r, updated) ==
  [ path |-> filePath(req[r].session, req[r].filename),
    modified |-> r,
    size |-> Len(req[r].data),
    mime |-> mimeLookup(filePath(req[r].session, req[r].filename)),
    updated |-> updated,
    hash |-> req[r].filehash ]

WithAssetOnly(assets, key, rec) == [k \in {key} |-> rec]

\* $set and $inc on the dotted fields assets.<key>.*, lines 121-135, and the
\* single-asset object of lines 193-201: the key gets the record, the other
\* keys keep theirs
WithAsset(assets, key, rec) ==
  [k \in DOMAIN assets \cup {key} |-> IF k = key THEN rec ELSE assets[k]]

\* Where a new document of the session may land: nedb keeps the documents in
\* the order of their random _id, and a query meets only the documents of one
\* session, so only the place among those is left open.
insertPositions(st, session) ==
  LET i == FirstMatch(st, session, 1)
  IN  IF i = 0 THEN {Len(st) + 1} ELSE i..(i + Len(Matching(st, session)))

\* db.insert(record): nedb adds the document under a fresh _id; no index
\* makes sessionId unique.
dbInsert(st, r) ==
  LET doc == [ sessionId |-> req[r].session,
               assets |-> WithAsset(<<>>, fileKey(req[r].filename), assetRecord(r, 0)) ]
  IN  { InsertAt(st, doc, i) : i \in insertPositions(st, req[r].session) }

incAlwaysOne(r) == 1

\* lines 126-130: the amount of $inc, 1 when the document found had the key
incUpdated(r) == IF req[r].hadKey THEN 1 ELSE 0

\* db.update({sessionId}, {$set, $inc}, {upsert: true}): the first matching
\* document gets the $set fields, and its updated counter is raised by inc
\* ($inc sets a missing field to inc); without a match the upsert inserts.
dbUpdate(st, r) ==
  LET key == fileKey(req[r].filename)
      inc == incUpdated(r)
      i   == FirstMatch(st, req[r].session, 1)
      old == st[i].assets
      upd == IF key \in DOMAIN old THEN old[key].updated + inc ELSE inc
  IN  IF i = 0
        THEN { InsertAt(st, [ sessionId |-> req[r].session,
                              assets |-> WithAsset(<<>>, key, assetRecord(r, inc)) ], j)
               : j \in insertPositions(st, req[r].session) }
        ELSE { [st EXCEPT ![i].assets = WithAsset(old, key, assetRecord(r, upd))] }

\* --------------------------------------------------------------- uploads
Completed(r) ==
  \/ req[r].resp.status # 0
  \/ req[r].pc \in {"done", "hung", "dropped"}

SameAsset(r, session, filename) ==
  /\ req[r].pc # "idle"
  /\ req[r].session = session
  /\ fileKey(req[r].filename) = fileKey(filename)

\* What becomes of a request whose handler throws: the server framework, not
\* the handler, decides it.  It answers 500 from its uncaught-exception hook
\* or, where the exception escapes it, sends nothing.
uncaughtOutcomes == {[status |-> 500, path |-> Undefined], NoResponse}

\* putAndPostHandler, lines 86-94 and 227: derive the paths and the key and
\* hand db.find to the datastore.  Without a body req.params.data is undefined
\* and taking its length for the log line (line 91) throws before db.find.
\* The answer of the last retrieval is kept until the next upload arrives,
\* which it does when no retrieval is pending.
StartUpload(r, in) ==
  /\ req[r].pc = "idle"
  /\ get.pc \in {"idle", "done"}
  /\ get' = IdleGet
  /\ \A q \in Reqs : q < r => req[q].pc # "idle"
  /\ IF Len(in) = 3
       THEN /\ req' = [req EXCEPT ![r] =
                 [@ EXCEPT !.pc = "find", !.session = in[1], !.filename = in[2],
                           !.data = in[3], !.hasData = TRUE,
                           !.solo = \A q \in Reqs :
                                      SameAsset(q, in[1], in[2]) => Completed(q)]]
            /\ dbq' = Append(dbq, <<"find", r>>)
       ELSE /\ \E o \in uncaughtOutcomes :
                 req' = [req EXCEPT ![r] =
                   [@ EXCEPT !.pc = "done", !.session = in[1], !.filename = in[2],
                             !.resp = o]]
            /\ dbq' = dbq
  /\ UNCHANGED <<store, dirs, files, faults>>

\* The callback of db.find, lines 94-101 and 159-160: one document starts the
\* overwrite chain with fs.writeFile, none starts the create chain with
\* fs.stat, more than one starts nothing.
DbFind(r) ==
  /\ dbq # <<>>
  /\ Head(dbq) = <<"find", r>>
  /\ LET docs == Matching(store, req[r].session)
     IN  req' = [req EXCEPT ![r] =
           IF Len(docs) = 1
             THEN [@ EXCEPT !.pc = "write", !.branch = "ow",
                            !.hadKey = fileKey(req[r].filename) \in DOMAIN docs[1].assets]
           ELSE IF Len(docs) = 0
             THEN [@ EXCEPT !.pc = "stat", !.branch = "cr"]
           ELSE [@ EXCEPT !.pc = "dropped"]]
  /\ dbq' = Tail(dbq)
  /\ UNCHANGED <<store, dirs, files, get, faults>>

\* The stage after hashing, lines 116-158 and 189-224, run on the record q of
\* a request whose filehash is set, against the files fl: fs.statSync throws
\* when the file is missing (503); the overwrite chain commits when the size
\* on disk is the payload's, the create chain when the path is a file; both
\* then answer 200 with path: undefined, the value the stage returns.
verifyStage(q, fl) ==
  LET path == filePath(q.session, q.filename) IN
  IF path \notin DOMAIN fl
    THEN [q EXCEPT !.pc = "done", !.failed = TRUE,
                   !.resp = [status |-> 503, path |-> Undefined]]
  ELSE LET same == Len(fl[path]) = Len(q.data)
           go   == IF q.branch = "ow" THEN same ELSE TRUE
       IN  [q EXCEPT !.pc = IF go THEN "commit" ELSE "done",
                     !.sizeOk = IF same THEN "match" ELSE "mismatch",
                     !.commit = IF go THEN "queued" ELSE "no",
                     !.resp = [status |-> 200, path |-> Undefined]]

Enqueue(r, q) == IF q.pc = "commit" THEN Append(dbq, <<"commit", r>>) ELSE dbq

\* fs.stat(dirPath) settles, lines 160-171: ENOENT leads to fs.mkdir; success,
\* and any other error (returned, not thrown), lead to fs.writeFile.
Stat(r) ==
  /\ req[r].pc = "stat"
  /\ \E o \in statOutcomes(req[r].session) :
       /\ req' = [req EXCEPT ![r] =
            IF o = "ENOENT" THEN [@ EXCEPT !.pc = "mkdir"]
            ELSE [@ EXCEPT !.pc = "write", !.failed = (o = "fault"),
                           !.dirErr = IF o = "fault" THEN "stat" ELSE "no"]]
       /\ faults' = IF o = "fault" THEN faults + 1 ELSE faults
  /\ UNCHANGED <<store, dirs, files, dbq, get>>

\* fs.mkdir(dirPath) settles, lines 165-179: success leads to fs.writeFile; a
\* rejection is turned into a value by the next handler, so the chain goes on
\* to hash the file without having written it.
Mkdir(r) ==
  /\ req[r].pc = "mkdir"
  /\ \E o \in mkdirOutcomes(req[r].session) :
       /\ dirs' = IF o = "ok" THEN dirs \cup {req[r].session} ELSE dirs
       /\ req' = [req EXCEPT ![r] =
            IF o = "ok" THEN [@ EXCEPT !.pc = "write"]
            ELSE [@ EXCEPT !.pc = "read", !.failed = TRUE, !.wrote = "skipped",
                           !.dirErr = IF o = "fault" THEN "mkdir" ELSE o]]
       /\ faults' = IF o = "fault" THEN faults + 1 ELSE faults
  /\ UNCHANGED <<store, files, dbq, get>>

\* fs.writeFile(filePath, data) settles, lines 101-115 and 171-188: success
\* opens the hashing stream; a rejection is turned into the value the next
\* stage takes for the digest, and that stage runs at once.
WriteFile(r) ==
  /\ req[r].pc = "write"
  /\ \E o \in writeFileOutcomes(req[r].session,
                                filePath(req[r].session, req[r].filename),
                                req[r].data) :
       /\ files' = o[2]
       /\ faults' = IF o[1] = "fault" THEN faults + 1 ELSE faults
       /\ LET q == IF o[1] = "ok"
                     THEN [req[r] EXCEPT !.pc = "read", !.wrote = "ok"]
                     ELSE verifyStage([req[r] EXCEPT !.wrote = "failed",
                                                     !.failed = TRUE,
                                                     !.filehash = ErrorValue], o[2])
          IN  /\ req' = [req EXCEPT ![r] = q]
              /\ dbq' = Enqueue(r, q)
  /\ UNCHANGED <<store, dirs, get>>

\* The stream of fs.createReadStream(filePath) reads the file into the hash,
\* lines 106-111 and 179-184.  Without a file the stream emits 'error', 'end'
\* never comes and the promise stays pending.
ReadBack(r) ==
  /\ req[r].pc = "read"
  /\ LET path == filePath(req[r].session, req[r].filename)
     IN  req' = [req EXCEPT ![r] =
           IF path \in DOMAIN files
             THEN [@ EXCEPT !.pc = "end", !.filehash = md5(files[path])]
             ELSE [@ EXCEPT !.pc = "hung", !.failed = TRUE]]
  /\ UNCHANGED <<store, dirs, files, dbq, get, faults>>

\* The stream's 'end', lines 107-110 and 180-183: the digest resolves the
\* promise and the verifying stage and the response follow in the same turn.
StreamEnd(r) ==
  /\ req[r].pc = "end"
  /\ LET q == verifyStage(req[r], files)
     IN  /\ req' = [req EXCEPT ![r] = q]
         /\ dbq' = Enqueue(r, q)
  /\ UNCHANGED <<store, dirs, files, get, faults>>

\* nedb applies the queued db.update (line 131) or db.insert (line 202); the
\* callback's result goes nowhere.  An injected fault fails the operation and
\* leaves the documents as they were.
DbCommit(r) ==
  /\ dbq # <<>>
  /\ Head(dbq) = <<"commit", r>>
  /\ dbq' = Tail(dbq)
  /\ \/ /\ store' \in (IF req[r].branch = "ow" THEN dbUpdate(store, r)
                                               ELSE dbInsert(store, r))
        /\ req' = [req EXCEPT ![r].pc = "done", ![r].commit = "applied"]
        /\ faults' = faults
     \/ /\ faults < MaxFaults
        /\ store' = store
        /\ req' = [req EXCEPT ![r].pc = "done", ![r].commit = "error",
                              ![r].failed = TRUE]
        /\ faults' = faults + 1
  /\ UNCHANGED <<dirs, files, get>>

\* ------------------------------------------------------------- retrieval
\* server.get('/:session/:filename'), lines 234-239 and 252: derive the key
\* and hand db.find to the datastore.
StartGet(in) ==
  /\ get.pc \in {"idle", "done"}
  /\ get' = [IdleGet EXCEPT !.pc = "find", !.kind = "file",
                            !.session = in[1], !.filename = in[2],
                            !.quiet = \A r \in Reqs : req[r].pc \in {"idle", "done"}]
  /\ dbq' = Append(dbq, <<"get", 0>>)
  /\ UNCHANGED <<store, dirs, files, req, faults>>

\* The callback of that db.find, lines 240-251: without a document it only
\* logs; with one it reads assets[fileKey].path, which throws when the key is
\* absent, as fs.statSync does when the file is; a regular file gets the 200
\* head with the recorded mime and a stream piped into the response.
DbGet ==
  /\ dbq # <<>>
  /\ Head(dbq) = <<"get", 0>>
  /\ dbq' = Tail(dbq)
  /\ LET docs == Matching(store, get.session)
         key  == fileKey(get.filename)
     IN  get' =
           IF Len(docs) # 1 THEN [get EXCEPT !.pc = "done"]
           ELSE IF key \notin DOMAIN docs[1].assets
             THEN [get EXCEPT !.pc = "done", !.threw = TRUE]
           ELSE IF docs[1].assets[key].path \notin DOMAIN files
             THEN [get EXCEPT !.pc = "done", !.threw = TRUE]
           ELSE [get EXCEPT !.pc = "stream", !.status = 200,
                            !.ctype = docs[1].assets[key].mime,
                            !.path = docs[1].assets[key].path]
  /\ UNCHANGED <<store, dirs, files, req, faults>>

\* The stream of line 247 delivers the file's bytes to the response.
GetStream ==
  /\ get.pc = "stream"
  /\ get' = [get EXCEPT !.pc = "done", !.streamed = TRUE, !.body = files[get.path]]
  /\ UNCHANGED <<store, dirs, files, dbq, req, faults>>

\* server.get('/'), lines 53-61: the description of the API, sent at once.
GetRoot ==
  /\ get.pc \in {"idle", "done"}
  /\ get' = [IdleGet EXCEPT !.pc = "done", !.kind = "root", !.status = 200]
  /\ UNCHANGED <<store, dirs, files, dbq, req, faults>>

\* server.get('/:session'), lines 64-69 and 82: hand db.find to the datastore.
StartGetSession(session) ==
  /\ get.pc \in {"idle", "done"}
  /\ get' = [IdleGet EXCEPT !.pc = "find", !.kind = "session", !.session = session]
  /\ dbq' = Append(dbq, <<"list", 0>>)
  /\ UNCHANGED <<store, dirs, files, req, faults>>

DbGetSessionCreating ==
  /\ dbq # <<>>
  /\ Head(dbq) = <<"list", 0>>
  /\ dbq' = Tail(dbq)
  /\ LET docs == Matching(store, get.session)
     IN  /\ get' =
             IF Len(docs) = 1
               THEN [get EXCEPT !.pc = "done", !.status = 200, !.json = <<docs[1]>>]
             ELSE [get EXCEPT !.pc = "done"]
         /\ store' =
             IF Len(docs) = 0
               THEN Append(store, [sessionId |-> get.session, assets |-> <<>>])
               ELSE store
  /\ UNCHANGED <<dirs, files, req, faults>>

\* The callback of that db.find, lines 70-81: 404 without a document, the
\* document itself with one, nothing with more.
DbGetSession ==
  /\ dbq # <<>>
  /\ Head(dbq) = <<"list", 0>>
  /\ dbq' = Tail(dbq)
  /\ LET docs == Matching(store, get.session)
     IN  get' =
           IF Len(docs) = 0 THEN [get EXCEPT !.pc = "done", !.status = 404]
           ELSE IF Len(docs) = 1
             THEN [get EXCEPT !.pc = "done", !.status = 200, !.json = <<docs[1]>>]
           ELSE [get EXCEPT !.pc = "done"]
  /\ UNCHANGED <<store, dirs, files, req, faults>>

\* --------------------------------------------------------- specifications
\* the I/O completions of the uploads
UploadPipeline ==
  \/ \E r \in Reqs : DbFind(r)
  \/ \E r \in Reqs : Stat(r)
  \/ \E r \in Reqs : Mkdir(r)
  \/ \E r \in Reqs : WriteFile(r)
  \/ \E r \in Reqs : ReadBack(r)
  \/ \E r \in Reqs : StreamEnd(r)
  \/ \E r \in Reqs : DbCommit(r)

\* the I/O completions of the GET requests
GetPipeline ==
  \/ DbGet
  \/ GetStream
  \/ DbGetSession

Pipeline ==
  \/ UploadPipeline
  \/ GetPipeline

InFlight ==
  Cardinality({r \in Reqs : req[r].pc # "idle" /\ ~Completed(r)})
  + (IF get.pc \in {"idle", "done"} THEN 0 ELSE 1)

\* Requests arrive at any time, while fewer than MaxInFlight of them still
\* have a step to take before their answer.
ConcStartUpload(r, in) == InFlight < MaxInFlight /\ StartUpload(r, in)

ConcStartGet(in) == InFlight < MaxInFlight /\ StartGet(in)

ConcStartGetSession(session) == InFlight < MaxInFlight /\ StartGetSession(session)

ConcGetRoot == InFlight < MaxInFlight /\ GetRoot

Next ==
  \/ \E r \in Reqs, in \in UploadInputs : ConcStartUpload(r, in)
  \/ \E in \in GetInputs : ConcStartGet(in)
  \/ \E session \in GetSessionInputs : ConcStartGetSession(session)
  \/ ConcGetRoot
  \/ Pipeline

Spec == Init /\ [][Next]_vars

\* One client that sends a request only when its earlier ones are over.
Quiet ==
  /\ \A r \in Reqs : req[r].pc = "idle" \/ Completed(r)
  /\ get.pc \in {"idle", "done"}

SeqStartUpload(r, in) == Quiet /\ StartUpload(r, in)

SeqStartGet(in) == Quiet /\ StartGet(in)

SeqStartGetSession(session) == Quiet /\ StartGetSession(session)

SeqGetRoot == Quiet /\ GetRoot

NextSeq ==
  \/ \E r \in Reqs, in \in UploadInputs : SeqStartUpload(r, in)
  \/ \E in \in GetInputs : SeqStartGet(in)
  \/ \E session \in GetSessionInputs : SeqStartGetSession(session)
  \/ SeqGetRoot
  \/ Pipeline

SpecSeq == Init /\ [][NextSeq]_vars

\* One client that only uploads, each request sent when the earlier ones are
\* over.
NextUp ==
  \/ \E r \in Reqs, in \in UploadInputs : SeqStartUpload(r, in)
  \/ UploadPipeline

SpecUp == Init /\ [][NextUp]_vars

\* ------------------------------------------------------------ properties
Started == {r \in Reqs : req[r].pc # "idle"}

\* the upload went through every stage without an error and its commit is in
Succeeded(r) ==
  /\ req[r].commit = "applied"
  /\ req[r].wrote = "ok"
  /\ ~req[r].failed

\* the AssetRecords stored for the key in the documents of the session
Records(session, key) ==
  { store[i].assets[key] :
      i \in {j \in 1..Len(store) : /\ store[j].sessionId = session
                                   /\ key \in DOMAIN store[j].assets} }

\* the uploads to the key whose commit is in
Commits(session, key) ==
  Cardinality({r \in Started : /\ req[r].session = session
                               /\ fileKey(req[r].filename) = key
                               /\ req[r].commit = "applied"})

\* C1: an upload's metadata is mutated only after its own file write has
\* succeeded and its digest has been read back from disk.
C1_CommitAfterOwnWrite ==
  \A r \in Reqs :
    req[r].commit = "applied" =>
      /\ req[r].wrote = "ok"
      /\ req[r].filehash # ErrorValue
      /\ req[r].filehash # Undefined

\* C2: an upload that found the size on disk different from the length of
\* its payload inserts or updates no AssetRecord, on either path.
C2_IntegrityGate ==
  \A r \in Reqs : req[r].sizeOk = "mismatch" => req[r].commit # "applied"

\* C3: in the state right after the commit of a successful upload, the
\* committed record's hash is the digest of the bytes at its path and its
\* size is their length.
C3_HashReflectsDisk ==
  [][ \A r \in Reqs :
        (Succeeded(r)' /\ req[r].commit = "queued") =>
          \E i \in 1..Len(store') :
            /\ store'[i].sessionId = req[r].session
            /\ fileKey(req[r].filename) \in DOMAIN store'[i].assets
            /\ LET rec == store'[i].assets[fileKey(req[r].filename)]
               IN  /\ rec.modified = r
                   /\ rec.path \in DOMAIN files'
                   /\ rec.hash = md5(files'[rec.path])
                   /\ rec.size = Len(files'[rec.path]) ]_vars

\* C4: when every upload so far succeeded and each was answered before the
\* next was sent, a key with n committed uploads has exactly one record and
\* its updated counter is n-1 (0 after the first, also in a session that
\* already had a document).
C4_UpdatedCounter ==
  (\A r \in Reqs : ~req[r].failed) =>
    \A s \in Sessions, f \in Filenames :
      LET n == Commits(s, fileKey(f))
          recs == Records(s, fileKey(f))
      IN  /\ n = 0 => recs = {}
          /\ n >= 1 => /\ Cardinality(recs) = 1
                       /\ \A rec \in recs : rec.updated = n - 1

\* C4 witness: two uploads to one key and a first upload to another key of
\* the session that already had a document, all committed.
C4_Witness ==
  /\ \A r \in Reqs : ~req[r].failed
  /\ Commits("s1", <<"foo">>) = 2
  /\ Commits("s1", <<"bar">>) = 1
  /\ \E r \in Reqs : /\ req[r].filename = BarWav
                     /\ req[r].branch = "ow"
                     /\ req[r].commit = "applied"

\* C5: after an upload of b to (session, filename) has succeeded, with no
\* other upload to the same key during or after it, a retrieval of
\* (session, filename) sent afterwards answers 200 with exactly b and the
\* mime type of the filename.
C5_RoundTrip ==
  \A r \in Reqs :
    ( /\ Succeeded(r)
      /\ req[r].solo
      /\ \A q \in Reqs \ {r} :
           SameAsset(q, req[r].session, req[r].filename) => q < r
      /\ get.pc = "done"
      /\ get.quiet
      /\ get.session = req[r].session
      /\ get.filename = req[r].filename )
    => /\ get.status = 200
       /\ get.streamed
       /\ get.body = req[r].data
       /\ get.ctype = mimeLookup(filePath(req[r].session, req[r].filename))

\* C6: a retrieval answers NotFound and streams nothing when the session has
\* no document, when its document has no record for the key, and when the
\* recorded file is missing.
C6_NotFound ==
  ( /\ get.pc = "done"
    /\ get.quiet
    /\ LET docs == Matching(store, get.session)
           key  == fileKey(get.filename)
       IN  \/ Len(docs) = 0
           \/ Len(docs) = 1 /\ key \notin DOMAIN docs[1].assets
           \/ /\ Len(docs) = 1
              /\ key \in DOMAIN docs[1].assets
              /\ docs[1].assets[key].path \notin DOMAIN files )
  => get.status = 404 /\ ~get.streamed

\* C7: foo.wav and then foo.txt, uploaded one after the other to a session
\* (the only uploads to that stem, none failing), address the one key "foo":
\* afterwards the session has one document with one record under "foo", which
\* carries the path, mime, size and hash of the second upload and updated = 1.
C7_KeyCollision ==
  \A r1, r2 \in Reqs :
    ( /\ r1 < r2
      /\ Succeeded(r1) /\ Succeeded(r2)
      /\ req[r1].session = req[r2].session
      /\ req[r1].filename = FooWav
      /\ req[r2].filename = FooTxt
      /\ \A q \in Started \ {r1, r2} :
           req[q].session # req[r1].session \/ req[q].filename = BarWav
      /\ \A q \in Started : ~req[q].failed )
    => /\ Len(Matching(store, req[r2].session)) = 1
       /\ LET assets == Matching(store, req[r2].session)[1].assets
          IN  /\ <<"foo">> \in DOMAIN assets
              /\ DOMAIN assets \subseteq {<<"foo">>, <<"bar">>}
              /\ assets[<<"foo">>] =
                   [ path |-> <<fileBaseDir, req[r2].session, FooTxt>>,
                     modified |-> r2,
                     size |-> Len(req[r2].data),
                     mime |-> "text/plain",
                     updated |-> 1,
                     hash |-> md5(req[r2].data) ]

\* C7 witness: foo.wav and then foo.txt have both been committed, next to an
\* upload to another key.
C7_Witness ==
  \E r1, r2 \in Reqs :
    /\ r1 < r2
    /\ Succeeded(r1) /\ Succeeded(r2)
    /\ req[r1].session = req[r2].session
    /\ req[r1].filename = FooWav
    /\ req[r2].filename = FooTxt
    /\ \A q \in Started : ~req[q].failed
    /\ \E q \in Started : req[q].filename = BarWav /\ Succeeded(q)

\* C8: an upload in which a step failed is answered with a server error and
\* creates or modifies no AssetRecord.
C8_FailureStops ==
  \A r \in Reqs :
    (req[r].failed /\ req[r].pc = "done") =>
      /\ req[r].resp.status = 503
      /\ req[r].commit # "applied"

\* C9: an upload that found the size on disk different from the length of
\* its payload is answered with a server error, never with success.
C9_MismatchReported ==
  \A r \in Reqs : req[r].sizeOk = "mismatch" => req[r].resp.status = 503

\* C10: the datastore holds at most one document per sessionId.
C10_SessionUnique ==
  \A s \in Sessions : Len(Matching(store, s)) <= 1

\* C11: every 200 answer to an upload, on the create and on the overwrite
\* path, carries in its path field the file path of the upload.
C11_ResponsePath ==
  \A r \in Reqs :
    req[r].resp.status = 200 =>
      req[r].resp.path = filePath(req[r].session, req[r].filename)

\* the request's commit, or the commit of a request that arrived after it,
\* wrote the record now stored for the key
CommittedBy(r) ==
  \E rec \in Records(req[r].session, fileKey(req[r].filename)) :
    /\ rec.modified >= r
    /\ req[rec.modified].commit = "applied"

\* C12: in every state in which an upload has been answered 200, the store
\* holds a record for its key written by that request or by a later one, and
\* an upload whose insert or update failed is never answered 200.
C12_SuccessImpliesCommitted ==
  \A r \in Reqs :
    req[r].resp.status = 200 =>
      /\ CommittedBy(r)
      /\ req[r].commit # "error"

\* C13: two uploads to one key that met the session without it (no document,
\* or a document lacking the key) and both succeeded, with no other upload to
\* the key, leave exactly one record for the key, with updated = 1.
C13_ConcurrentCreates ==
  \A r1, r2 \in Reqs :
    ( /\ r1 < r2
      /\ Succeeded(r1) /\ Succeeded(r2)
      /\ req[r1].session = req[r2].session
      /\ fileKey(req[r1].filename) = fileKey(req[r2].filename)
      /\ ~req[r1].hadKey /\ ~req[r2].hadKey
      /\ Commits(req[r1].session, fileKey(req[r1].filename)) = 2 )
    => LET recs == Records(req[r1].session, fileKey(req[r1].filename))
       IN  /\ Cardinality(recs) = 1
           /\ Len(Matching(store, req[r1].session)) = 1
           /\ \A rec \in recs : rec.updated = 1

\* C14: an upload with a body never comes to rest unanswered: as long as it
\* has no answer, a step of it is still to come, also after a lookup that
\* returned more than one document and after a hashing stream that failed.
C14_AlwaysAnswered ==
  \A r \in Reqs :
    (req[r].hasData /\ req[r].pc \in {"done", "hung", "dropped"}) =>
      req[r].resp.status # 0

\* no upload is on its way: each is unsent or has taken its last step
NoUploadInFlight ==
  \A r \in Reqs : req[r].pc \in {"idle", "done", "hung", "dropped"}

\* C15: whenever no upload is in flight, every stored record points at an
\* existing file whose length is the record's size and whose digest is the
\* record's hash; a failed overwrite included.
C15_RecordsStayValid ==
  NoUploadInFlight =>
    \A i \in 1..Len(store) : \A k \in DOMAIN store[i].assets :
      LET rec == store[i].assets[k]
      IN  /\ rec.path \in DOMAIN files
          /\ rec.size = Len(files[rec.path])
          /\ rec.hash = md5(files[rec.path])

\* the sessionIds of the documents
SessionIds(st) == {st[i].sessionId : i \in 1..Len(st)}

\* the keys under which the documents of the session hold a record
AssetKeys(st, session) ==
  UNION {DOMAIN st[i].assets : i \in {j \in 1..Len(st) : st[j].sessionId = session}}

\* the records held under the key by the documents of the session, in order
KeyRecords(st, session, key) ==
  LET docs == SelectSeq(st, LAMBDA d : d.sessionId = session /\ key \in DOMAIN d.assets)
  IN  [i \in 1..Len(docs) |-> docs[i].assets[key]]

C17_LazyMonotone ==
  [][ /\ SessionIds(store) \subseteq SessionIds(store')
      /\ Len(store) <= Len(store')
      /\ \A s \in Sessions : AssetKeys(store, s) \subseteq AssetKeys(store', s)
      /\ store' # store =>
            \E r \in Reqs : /\ req[r].commit = "queued"
                            /\ req'[r].commit = "applied"
                            /\ SessionIds(store') = SessionIds(store) \cup {req[r].session}
      /\ req' = req => (store' = store /\ files' = files /\ dirs' = dirs) ]_vars

\* C17 witness: GET /s2 has answered 404 and s2 still has no document, while
\* the document of s1 has grown to two keys.
C17_Witness ==
  /\ get.kind = "session"
  /\ get.pc = "done"
  /\ get.status = 404
  /\ get.session \notin SessionIds(store)
  /\ AssetKeys(store, "s1") = {<<"foo">>, <<"bar">>}

\* C18: on the create path fs.writeFile is started only when the session
\* directory exists; an upload whose fs.stat or fs.mkdir failed for another
\* reason than the directory being absent is answered 503, writes no file and
\* inserts nothing; and an upload that met a directory already there goes on
\* to write its file.
C18_DirectoryEnsured ==
  \A r \in Reqs :
    req[r].branch = "cr" =>
      /\ req[r].wrote \in {"ok", "failed"} => req[r].session \in dirs
      /\ (req[r].dirErr \in {"stat", "mkdir"} /\ Completed(r)) =>
            /\ req[r].resp.status = 503
            /\ req[r].wrote \in {"no", "skipped"}
            /\ req[r].commit = "no"
      /\ req[r].dirErr = "EEXIST" => req[r].wrote # "skipped"

\* C20: an upload without a body is answered with a 4xx status and creates
\* no directory, writes no file and commits nothing.
C20_MissingPayload ==
  \A r \in Reqs :
    (req[r].pc # "idle" /\ ~req[r].hasData) =>
      /\ req[r].resp.status \in 400..499
      /\ req[r].wrote = "no"
      /\ req[r].commit = "no"
      /\ req[r].branch = "none"

\* C19: no two records of the store, in one document or in two, have the
\* same path.
C19_PathExclusive ==
  \A i, j \in 1..Len(store) :
    \A k1 \in DOMAIN store[i].assets, k2 \in DOMAIN store[j].assets :
      (i # j \/ k1 # k2) => store[i].assets[k1].path # store[j].assets[k2].path

====
